---------------------------- MODULE Spec2Model ----------------------------
(***************************************************************************)
(* Model of module/vits/discriminator.py: construction of a Discriminator  *)
(* (multi-period + multi-resolution ensembles with SAN heads) and one call  *)
(* of Discriminator.forward.                                                *)
(*                                                                          *)
(* Tensors are objects on a heap.  Every torch call allocates a new node    *)
(* (torch's functional operators return a new tensor object); Python       *)
(* variables hold node ids, so rebinding a local and changing an object     *)
(* are different things in the model, as they are in the program.           *)
(* A node records the operator that produced it, its operands (ids), its    *)
(* shape, and, where the values are determined by the input alone (the      *)
(* waveform, unsqueeze, pad, view), its data as the flat row-major list of  *)
(* elements.  Convolutions, activations, the STFT and the SAN arithmetic    *)
(* depend on learned / random parameters: their values stay symbolic        *)
(* (data = << >>), their shapes and operands are exact.                     *)
(***************************************************************************)
EXTENDS Integers, Sequences, FiniteSets, TLC

VARIABLES
    cfg,      \* constructor arguments: [mpd, mrd], and the value get_padding returns
    wave,     \* the waveform given to forward: [b, t]
    MPD,      \* self.MPD.sub_discs
    MRD,      \* self.MRD.sub_discs
    heap,     \* tensor objects, by id (1..Len(heap))
    pc,       \* position in the program
    i,        \* index of the sub-discriminator under construction / being run (1-based)
    k,        \* index of the convolution being applied (1-based)
    x,        \* Discriminator.forward's x
    mx,       \* MultiPeriodicDiscriminator.forward's x (after line 80)
    arg,      \* the tensor passed to the running sub-discriminator
    sx,       \* the running sub-discriminator's local x
    fmap,     \* the running sub-discriminator's fmap / feats list
    logits,   \* the running ensemble's logits list
    dirs,     \* the running ensemble's dirs list
    feats,    \* the running ensemble's feats list
    mpd_ret,  \* (mpd_logits, mpd_dirs, mpd_feats) of line 153
    ret,      \* the value returned by Discriminator.forward
    err,      \* the position at which an exception was raised ("" if none)
    log       \* history: one record per completed sub-discriminator call

vars == <<cfg, wave, MPD, MRD, heap, pc, i, k, x, mx, arg, sx, fmap,
          logits, dirs, feats, mpd_ret, ret, err, log>>

-----------------------------------------------------------------------------
(* Bounds of the explored configurations *)

MaxSubs == 2
MaxLayers == 2
MaxLen == 12
MaxPeriod == 5
MaxChannels == 3
MaxMul == 3
MaxGetPadding == 2

(* Program constants *)

kernel_size == 5
stride == 3
DefaultChannels == 32
DefaultChannelsR == 32
DefaultChannelsMul == 2
DefaultMaxChannels == 256
DefaultNumLayersP == 4
DefaultNumLayersR == 6
FreqKernel == 7
FreqPadFirst == 3
FreqPadRest == 2
FreqStrideRest == 2
TimeKernel == 3
NFftFactor == 4

DefaultPeriods == <<1, 2, 5, 7, 11, 17, 23, 31>>
DefaultResolutions == <<128, 256, 512>>

\* leaky_relu's negative slope 0.1, as the fraction <<numerator, denominator>>
LeakySlope == <<1, 10>>

-----------------------------------------------------------------------------
(* Small helpers *)

Min(a, b) == IF a <= b THEN a ELSE b
Max(a, b) == IF a >= b THEN a ELSE b

RECURSIVE Prod(_)
Prod(s) == IF Len(s) = 0 THEN 1 ELSE Head(s) * Prod(Tail(s))

\* all sequences over S of length 0..n
SeqsUpTo(S, n) == UNION {[1..m -> S] : m \in 0..n}

-----------------------------------------------------------------------------
(* Tensor objects *)

Node(op, shape, of, p, data) ==
    [op |-> op, shape |-> shape, of |-> of, p |-> p, data |-> data]

\* a functional torch operator: the result is a new tensor object
New(h, node) == [h |-> Append(h, node), id |-> Len(h) + 1]

\* the waveform batch x: [BatchSize, Length]; sample j of row r has the
\* value r*t + j + 1 (all samples distinct and nonzero)
InputNode(b, t) == Node("input", <<b, t>>, << >>, << >>, [j \in 1..(b * t) |-> j])

\* nn.Parameter(torch.randn(1, channels, 1))
ParamNode(channels) == Node("param", <<1, channels, 1>>, << >>, << >>, << >>)

\* x.unsqueeze(1): a dimension of size 1 inserted at position 1, same elements
UnsqueezeNode(h, a) ==
    LET n == h[a] IN
    Node("unsqueeze", <<n.shape[1], 1>> \o Tail(n.shape), <<a>>, <<1>>, n.data)

Unsqueeze(h, a) == New(h, UnsqueezeNode(h, a))

\* F.pad(x, (0, n_pad)): n_pad zeros appended to every row of the last dimension
PadNode(h, a, n_pad) ==
    LET n  == h[a]
        d  == Len(n.shape)
        t  == n.shape[d]
        t2 == t + n_pad
        rows == Prod(SubSeq(n.shape, 1, d - 1))
    IN  Node("pad", [n.shape EXCEPT ![d] = t2], <<a>>, <<0, n_pad>>,
             [j \in 1..(rows * t2) |->
                 IF (j - 1) % t2 < t
                 THEN n.data[((j - 1) \div t2) * t + ((j - 1) % t2) + 1]
                 ELSE 0])

\* padding that changes the given tensor object instead of creating one
Pad_inplace(h, a, n_pad) == [h |-> [h EXCEPT ![a] = PadNode(h, a, n_pad)], id |-> a]

Pad(h, a, n_pad) == New(h, PadNode(h, a, n_pad))

\* x.view(shape): same storage read with another shape (row-major)
ViewOk(h, a, shape) == Prod(shape) = Prod(h[a].shape)

ViewNode(h, a, shape) == Node("view", shape, <<a>>, shape, h[a].data)

View(h, a, shape) == New(h, ViewNode(h, a, shape))

\* element of a 4-D tensor at [b0, c0, r, c] (0-based), row-major
At4(n, b0, c0, r, c) ==
    n.data[((b0 * n.shape[2] + c0) * n.shape[3] + r) * n.shape[4] + c + 1]

\* element of a 3-D tensor at [b0, c0, j] (0-based)
At3(n, b0, c0, j) == n.data[(b0 * n.shape[2] + c0) * n.shape[3] + j + 1]

\* element of a 2-D tensor at [b0, j] (0-based)
At2(n, b0, j) == n.data[b0 * n.shape[2] + j + 1]


-----------------------------------------------------------------------------
(* Symbolic operators: exact shape and operands, values not computed *)

Sym(op, shape, of, p) == Node(op, shape, of, p, << >>)

\* nn.Conv2d(cin, cout, kernel, stride, padding), not yet parametrized
Conv2d(cin, cout, kernel, strd, padding) ==
    [cin |-> cin, cout |-> cout, kernel |-> kernel, stride |-> strd,
     padding |-> padding, norms |-> << >>]

\* nn.utils.parametrizations.weight_norm / spectral_norm applied to a module
weight_norm(conv) == [conv EXCEPT !.norms = Append(@, "weight_norm")]
spectral_norm(conv) == [conv EXCEPT !.norms = Append(@, "spectral_norm")]

\* length of one spatial axis after a convolution
ConvOut(n, kern, strd, padding) == ((n + 2 * padding - kern) \div strd) + 1

\* Conv2d raises unless the input is [B, cin, H, W] with the padded H, W at
\* least the kernel
Conv2dOk(h, a, conv) ==
    LET s == h[a].shape IN
    /\ Len(s) = 4
    /\ s[2] = conv.cin
    /\ s[3] + 2 * conv.padding[1] >= conv.kernel[1]
    /\ s[4] + 2 * conv.padding[2] >= conv.kernel[2]

\* l(x) for the convolution at position <<ensemble, sub-discriminator, layer>>
Conv2dNode(h, a, conv, where) ==
    LET s == h[a].shape IN
    Sym("conv",
        <<s[1], conv.cout,
          ConvOut(s[3], conv.kernel[1], conv.stride[1], conv.padding[1]),
          ConvOut(s[4], conv.kernel[2], conv.stride[2], conv.padding[2])>>,
        <<a>>, where)

\* F.leaky_relu(x, 0.1) (not in place)
LeakyReluNode(h, a) == Sym("leaky_relu", h[a].shape, <<a>>, LeakySlope)

\* torch.stft(x, n_fft, hop, window=w, return_complex=True): centered, reflect
\* padding of n_fft // 2 on both sides, so the input must be longer than that
StftOk(h, a, n_fft, hop) ==
    LET s == h[a].shape IN
    /\ Len(s) \in {1, 2}
    /\ hop > 0
    /\ s[Len(s)] > n_fft \div 2

StftShape(s, n_fft, hop) ==
    SubSeq(s, 1, Len(s) - 1) \o <<(n_fft \div 2) + 1, 1 + (s[Len(s)] \div hop)>>

-----------------------------------------------------------------------------
(* SANLayer *)

\* SANLayer.__init__: self.weights is a fresh parameter
SANLayer_init(h, channels) ==
    LET w == New(h, ParamNode(channels)) IN
    [h |-> w.h, post |-> [channels |-> channels, weights |-> w.id, norms |-> << >>]]

\* broadcasting of x: [B, C, N] against w: [1, Cw, 1]
SANBroadcastOk(h, a, post) ==
    LET s == h[a].shape IN
    /\ Len(s) >= 3
    /\ (s[2] = post.channels \/ s[2] = 1 \/ post.channels = 1)

\* SANLayer.forward with the two detach calls on the wrong operands
SANLayer_nodes_swapped(h, a, post) ==
    LET s    == h[a].shape
        b    == Len(h)
        fs   == <<s[1], s[2], Prod(SubSeq(s, 3, Len(s)))>>
        ws   == h[post.weights].shape
        ms   == <<fs[1], Max(fs[2], ws[2]), fs[3]>>
        os   == <<ms[1], ms[3]>>
    IN  << Sym("flatten", fs, <<a>>, <<2>>),
           Sym("normalize", ws, <<post.weights>>, <<1>>),
           Sym("detach", fs, <<b + 1>>, << >>),
           Sym("mul", ms, <<b + 3, b + 2>>, << >>),
           Sym("sum", os, <<b + 4>>, <<1>>),
           Sym("detach", ws, <<b + 2>>, << >>),
           Sym("mul", ms, <<b + 1, b + 6>>, << >>),
           Sym("sum", os, <<b + 7>>, <<1>>) >>

\* SANLayer.forward(x): the eight tensors it creates, in order
SANLayer_nodes(h, a, post) ==
    LET s    == h[a].shape
        b    == Len(h)
        fs   == <<s[1], s[2], Prod(SubSeq(s, 3, Len(s)))>>
        ws   == h[post.weights].shape
        ms   == <<fs[1], Max(fs[2], ws[2]), fs[3]>>
        os   == <<ms[1], ms[3]>>
    IN  << Sym("flatten", fs, <<a>>, <<2>>),                 \* b+1: x.flatten(start_dim=2)
           Sym("normalize", ws, <<post.weights>>, <<1>>),    \* b+2: w
           Sym("detach", ws, <<b + 2>>, << >>),              \* b+3: w.detach()
           Sym("mul", ms, <<b + 1, b + 3>>, << >>),          \* b+4: x * w.detach()
           Sym("sum", os, <<b + 4>>, <<1>>),                 \* b+5: logits
           Sym("detach", fs, <<b + 1>>, << >>),              \* b+6: x.detach()
           Sym("mul", ms, <<b + 6, b + 2>>, << >>),          \* b+7: x.detach() * w
           Sym("sum", os, <<b + 7>>, <<1>>) >>               \* b+8: out_dir

SANLayer_forward(h, a, post) ==
    [h |-> h \o SANLayer_nodes(h, a, post), logits |-> Len(h) + 5, out_dir |-> Len(h) + 8]

-----------------------------------------------------------------------------
(* Constructors *)

\* the loop without the cap at max_channels
RECURSIVE PConvLoop_uncapped(_, _, _, _, _, _)
PConvLoop_uncapped(convs, c, n, channels_mul, max_channels, gp) ==
    IF n = 0 THEN [convs |-> convs, c |-> c]
    ELSE LET c_next == c * channels_mul IN
         PConvLoop_uncapped(Append(convs, Conv2d(c, c_next, <<kernel_size, 1>>, <<stride, 1>>, <<gp, 0>>)),
                   c_next, n - 1, channels_mul, max_channels, gp)

\* lines 32-35: the loop that chains the convolutions
RECURSIVE PConvLoop(_, _, _, _, _, _)
PConvLoop(convs, c, n, channels_mul, max_channels, gp) ==
    IF n = 0 THEN [convs |-> convs, c |-> c]
    ELSE LET c_next == Min(c * channels_mul, max_channels) IN
         PConvLoop(Append(convs, Conv2d(c, c_next, <<kernel_size, 1>>, <<stride, 1>>, <<gp, 0>>)),
                   c_next, n - 1, channels_mul, max_channels, gp)

\* the two parametrizations exchanged
NormFP_swapped(use_spectral_norm, conv) ==
    IF use_spectral_norm = FALSE THEN spectral_norm(conv) ELSE weight_norm(conv)

\* norm_f of line 25 / line 95
NormFP(use_spectral_norm, conv) ==
    IF use_spectral_norm = FALSE THEN weight_norm(conv) ELSE spectral_norm(conv)

NormFR(use_spectral_norm, conv) ==
    IF use_spectral_norm THEN spectral_norm(conv) ELSE weight_norm(conv)

\* DiscriminatorP.__init__; gp is what get_padding(5, 1) returns
DiscriminatorP_init(h, period, channels, channels_mul, num_layers, max_channels, use_spectral_norm, gp) ==
    LET first == <<Conv2d(1, channels, <<kernel_size, 1>>, <<stride, 1>>, <<gp, 0>>)>>
        loop  == PConvLoop(first, channels, num_layers, channels_mul, max_channels, gp)
        san   == SANLayer_init(h, loop.c)
    IN  [h |-> san.h,
         d |-> [period |-> period,
                convs  |-> [j \in 1..Len(loop.convs) |-> NormFP(use_spectral_norm, loop.convs[j])],
                post   |-> san.post]]

\* DiscriminatorR.__init__ with the first convolution's padding copied to the others
DiscriminatorR_init_pad3(h, resolution, channels, num_layers, use_spectral_norm) ==
    LET first == NormFR(use_spectral_norm,
                        Conv2d(1, channels, <<FreqKernel, TimeKernel>>, <<1, 1>>, <<FreqPadFirst, 1>>))
        rest  == NormFR(use_spectral_norm,
                        Conv2d(channels, channels, <<FreqKernel, TimeKernel>>,
                               <<FreqStrideRest, 1>>, <<FreqPadFirst, 1>>))
        san   == SANLayer_init(h, channels)
    IN  [h |-> san.h,
         d |-> [hop_size |-> resolution,
                n_fft    |-> resolution * NFftFactor,
                convs    |-> <<first>> \o [j \in 1..num_layers |-> rest],
                post     |-> san.post]]

\* DiscriminatorR.__init__ with an FFT of twice the hop
DiscriminatorR_init_nfft2(h, resolution, channels, num_layers, use_spectral_norm) ==
    LET first == NormFR(use_spectral_norm,
                        Conv2d(1, channels, <<FreqKernel, TimeKernel>>, <<1, 1>>, <<FreqPadFirst, 1>>))
        rest  == NormFR(use_spectral_norm,
                        Conv2d(channels, channels, <<FreqKernel, TimeKernel>>,
                               <<FreqStrideRest, 1>>, <<FreqPadRest, 1>>))
        san   == SANLayer_init(h, channels)
    IN  [h |-> san.h,
         d |-> [hop_size |-> resolution,
                n_fft    |-> resolution * 2,
                convs    |-> <<first>> \o [j \in 1..num_layers |-> rest],
                post     |-> san.post]]

\* DiscriminatorR.__init__
DiscriminatorR_init(h, resolution, channels, num_layers, use_spectral_norm) ==
    LET first == NormFR(use_spectral_norm,
                        Conv2d(1, channels, <<FreqKernel, TimeKernel>>, <<1, 1>>, <<FreqPadFirst, 1>>))
        rest  == NormFR(use_spectral_norm,
                        Conv2d(channels, channels, <<FreqKernel, TimeKernel>>,
                               <<FreqStrideRest, 1>>, <<FreqPadRest, 1>>))
        san   == SANLayer_init(h, channels)
    IN  [h |-> san.h,
         d |-> [hop_size |-> resolution,
                n_fft    |-> resolution * NFftFactor,
                convs    |-> <<first>> \o [j \in 1..num_layers |-> rest],
                post     |-> san.post]]


-----------------------------------------------------------------------------
(* DiscriminatorP.forward, lines 43-48 *)

\* line 44
NeedsPad(t, period) == t % period # 0

\* a wrong pad amount: the remainder itself
NPad_remainder(t, period) == t % period

\* line 45
NPad(t, period) == period - (t % period)

\* a wrong grid: period rows, t // period columns
GridShape_transposed(b, c, t, period) == <<b, c, period, t \div period>>

\* line 48: the shape given to view
GridShape(b, c, t, period) == <<b, c, t \div period, period>>

\* concatenation with the operands exchanged
ListConcat_reversed(a, b) == b \o a

\* lines 156-158: list concatenation
ListConcat(a, b) == a \o b

-----------------------------------------------------------------------------
(* Positions *)

\* the loop of lines 71-77, then that of lines 130-131
CtorPos(c, stage, j) ==
    IF stage = "MPD.__init__" /\ j <= Len(c.mpd.periods) THEN <<"MPD.__init__", j>>
    ELSE IF stage = "MPD.__init__" THEN
        (IF 1 <= Len(c.mrd.resolutions) THEN <<"MRD.__init__", 1>> ELSE <<"constructed", 0>>)
    ELSE IF j <= Len(c.mrd.resolutions) THEN <<"MRD.__init__", j>>
    ELSE <<"constructed", 0>>

-----------------------------------------------------------------------------
(* Construction: Discriminator.__init__ *)

\* one iteration of the loop of lines 71-77
MPDAppend ==
    /\ pc = "MPD.__init__"
    /\ LET m == cfg.mpd
           r == DiscriminatorP_init(heap, m.periods[i], m.channels, m.channels_mul,
                                    m.num_layers, m.max_channels, (i - 1 = 0),
                                    cfg.get_padding)
           n == CtorPos(cfg, "MPD.__init__", i + 1)
       IN  /\ MPD' = Append(MPD, r.d)
           /\ heap' = r.h
           /\ pc' = n[1]
           /\ i' = n[2]
    /\ UNCHANGED <<cfg, wave, MRD, k, x, mx, arg, sx, fmap, logits, dirs, feats,
                   mpd_ret, ret, err, log>>

\* one iteration of the loop of lines 130-131
MRDAppend ==
    /\ pc = "MRD.__init__"
    /\ LET m == cfg.mrd
           r == DiscriminatorR_init(heap, m.resolutions[i], m.channels, m.num_layers,
                                    (i - 1 = 0))
           n == CtorPos(cfg, "MRD.__init__", i + 1)
       IN  /\ MRD' = Append(MRD, r.d)
           /\ heap' = r.h
           /\ pc' = n[1]
           /\ i' = n[2]
    /\ UNCHANGED <<cfg, wave, MPD, k, x, mx, arg, sx, fmap, logits, dirs, feats,
                   mpd_ret, ret, err, log>>

-----------------------------------------------------------------------------
(* Discriminator.forward *)

\* an exception leaves forward; nothing is returned
Raise ==
    /\ pc' = "raised"
    /\ err' = pc
    /\ UNCHANGED <<heap, i, k, mx, arg, sx, fmap, logits, dirs, feats, mpd_ret, ret, log>>

\* line 153 entering MultiPeriodicDiscriminator.forward, lines 80-83
MPD_enter ==
    /\ pc = "constructed"
    /\ LET inp == New(heap, InputNode(wave.b, wave.t))
           u   == Unsqueeze(inp.h, inp.id)
       IN  /\ x' = inp.id
           /\ mx' = u.id
           /\ heap' = u.h
    /\ logits' = << >>
    /\ dirs' = << >>
    /\ feats' = << >>
    /\ i' = 1
    /\ pc' = IF Len(MPD) >= 1 THEN "P.reshape" ELSE "MPD.return"
    /\ UNCHANGED <<cfg, wave, MPD, MRD, k, arg, sx, fmap, mpd_ret, ret, err, log>>

\* line 85 calling sub_discs[i](x): DiscriminatorP.forward lines 40-48
P_reshape ==
    /\ pc = "P.reshape"
    /\ UNCHANGED <<cfg, wave, MPD, MRD, x>>
    /\ IF Len(heap[mx].shape) # 3 THEN Raise
       ELSE
         LET period == MPD[i].period
             b  == heap[mx].shape[1]
             c  == heap[mx].shape[2]
             t0 == heap[mx].shape[3]
             padded == IF NeedsPad(t0, period) THEN Pad(heap, mx, NPad(t0, period))
                       ELSE [h |-> heap, id |-> mx]
             t  == IF NeedsPad(t0, period) THEN t0 + NPad(t0, period) ELSE t0
             shape == GridShape(b, c, t, period)
         IN  IF ~ViewOk(padded.h, padded.id, shape) THEN Raise
             ELSE LET v == View(padded.h, padded.id, shape) IN
                  /\ heap' = v.h
                  /\ sx' = v.id
                  /\ arg' = mx
                  /\ fmap' = << >>
                  /\ k' = 1
                  /\ pc' = "P.conv"
                  /\ UNCHANGED <<i, mx, logits, dirs, feats, mpd_ret, ret, err, log>>

\* one iteration of the loop of lines 51-54
P_conv ==
    /\ pc = "P.conv"
    /\ UNCHANGED <<cfg, wave, MPD, MRD, x>>
    /\ IF ~Conv2dOk(heap, sx, MPD[i].convs[k]) THEN Raise
       ELSE
         LET c == New(heap, Conv2dNode(heap, sx, MPD[i].convs[k], <<1, i, k>>))
             a == New(c.h, LeakyReluNode(c.h, c.id))
         IN  /\ heap' = a.h
             /\ sx' = a.id
             /\ fmap' = Append(fmap, a.id)
             /\ k' = IF k < Len(MPD[i].convs) THEN k + 1 ELSE k
             /\ pc' = IF k < Len(MPD[i].convs) THEN "P.conv" ELSE "P.post"
             /\ UNCHANGED <<i, mx, arg, logits, dirs, feats, mpd_ret, ret, err, log>>

\* lines 56-57 and the rest of the loop body, lines 86-88
P_post ==
    /\ pc = "P.post"
    /\ UNCHANGED <<cfg, wave, MPD, MRD, x>>
    /\ IF ~SANBroadcastOk(heap, sx, MPD[i].post) THEN Raise
       ELSE
         LET s == SANLayer_forward(heap, sx, MPD[i].post) IN
         /\ heap' = s.h
         /\ logits' = Append(logits, s.logits)
         /\ dirs' = Append(dirs, s.out_dir)
         /\ feats' = ListConcat(feats, fmap)
         /\ log' = Append(log, [ens |-> "MPD", sub |-> i, arg |-> arg, head |-> sx,
                                logit |-> s.logits, dir |-> s.out_dir, fmap |-> fmap])
         /\ i' = i + 1
         /\ pc' = IF i + 1 <= Len(MPD) THEN "P.reshape" ELSE "MPD.return"
         /\ UNCHANGED <<k, mx, arg, sx, fmap, mpd_ret, ret, err>>

\* line 89, then line 154 entering MultiResolutionDiscriminator.forward, lines 134-136
MPD_return ==
    /\ pc = "MPD.return"
    /\ mpd_ret' = [logits |-> logits, dirs |-> dirs, feats |-> feats]
    /\ logits' = << >>
    /\ dirs' = << >>
    /\ feats' = << >>
    /\ i' = 1
    /\ pc' = IF Len(MRD) >= 1 THEN "R.spectrogram" ELSE "MRD.return"
    /\ UNCHANGED <<cfg, wave, MPD, MRD, heap, k, x, mx, arg, sx, fmap, ret, err, log>>

\* line 138 calling sub_discs[i](x): DiscriminatorR.forward lines 110-112
R_spectrogram ==
    /\ pc = "R.spectrogram"
    /\ UNCHANGED <<cfg, wave, MPD, MRD, x>>
    /\ LET d == MRD[i] IN
       IF ~StftOk(heap, x, d.n_fft, d.hop_size) THEN Raise
       ELSE
         LET w == New(heap, Sym("hann_window", <<d.n_fft>>, << >>, <<d.n_fft>>))
             f == New(w.h, Sym("stft", StftShape(heap[x].shape, d.n_fft, d.hop_size),
                               <<x, w.id>>, <<d.n_fft, d.hop_size>>))
             a == New(f.h, Sym("abs", f.h[f.id].shape, <<f.id>>, << >>))
             u == Unsqueeze(a.h, a.id)
         IN  /\ heap' = u.h
             /\ sx' = u.id
             /\ arg' = x
             /\ fmap' = << >>
             /\ k' = 1
             /\ pc' = "R.conv"
             /\ UNCHANGED <<i, mx, logits, dirs, feats, mpd_ret, ret, err, log>>

\* one iteration of the loop of lines 113-116: the value of F.leaky_relu is
\* not bound to anything
R_conv ==
    /\ pc = "R.conv"
    /\ UNCHANGED <<cfg, wave, MPD, MRD, x>>
    /\ IF ~Conv2dOk(heap, sx, MRD[i].convs[k]) THEN Raise
       ELSE
         LET c == New(heap, Conv2dNode(heap, sx, MRD[i].convs[k], <<2, i, k>>))
             a == New(c.h, LeakyReluNode(c.h, c.id))
         IN  /\ heap' = a.h
             /\ sx' = c.id
             /\ fmap' = Append(fmap, c.id)
             /\ k' = IF k < Len(MRD[i].convs) THEN k + 1 ELSE k
             /\ pc' = IF k < Len(MRD[i].convs) THEN "R.conv" ELSE "R.post"
             /\ UNCHANGED <<i, mx, arg, logits, dirs, feats, mpd_ret, ret, err, log>>

\* lines 117-118 and the rest of the loop body, lines 139-141
R_post ==
    /\ pc = "R.post"
    /\ UNCHANGED <<cfg, wave, MPD, MRD, x>>
    /\ IF ~SANBroadcastOk(heap, sx, MRD[i].post) THEN Raise
       ELSE
         LET s == SANLayer_forward(heap, sx, MRD[i].post) IN
         /\ heap' = s.h
         /\ logits' = Append(logits, s.logits)
         /\ dirs' = Append(dirs, s.out_dir)
         /\ feats' = ListConcat(feats, fmap)
         /\ log' = Append(log, [ens |-> "MRD", sub |-> i, arg |-> arg, head |-> sx,
                                logit |-> s.logits, dir |-> s.out_dir, fmap |-> fmap])
         /\ i' = i + 1
         /\ pc' = IF i + 1 <= Len(MRD) THEN "R.spectrogram" ELSE "MRD.return"
         /\ UNCHANGED <<k, mx, arg, sx, fmap, mpd_ret, ret, err>>

\* line 142, then lines 156-160
MRD_return ==
    /\ pc = "MRD.return"
    /\ ret' = [logits |-> ListConcat(mpd_ret.logits, logits),
               dirs   |-> ListConcat(mpd_ret.dirs, dirs),
               feats  |-> ListConcat(mpd_ret.feats, feats)]
    /\ pc' = "done"
    /\ UNCHANGED <<cfg, wave, MPD, MRD, heap, i, k, x, mx, arg, sx, fmap, logits,
                   dirs, feats, mpd_ret, err, log>>

Next ==
    \/ MPDAppend
    \/ MRDAppend
    \/ MPD_enter
    \/ P_reshape
    \/ P_conv
    \/ P_post
    \/ MPD_return
    \/ R_spectrogram
    \/ R_conv
    \/ R_post
    \/ MRD_return

-----------------------------------------------------------------------------
(* Initial states *)

NoLists == [logits |-> << >>, dirs |-> << >>, feats |-> << >>]

\* the state in which Discriminator(mpd, mrd) starts to build its ensembles
Start(c, w) ==
    /\ cfg = c
    /\ wave = w
    /\ MPD = << >>
    /\ MRD = << >>
    /\ heap = << >>
    /\ pc = CtorPos(c, "MPD.__init__", 1)[1]
    /\ i = CtorPos(c, "MPD.__init__", 1)[2]
    /\ k = 0
    /\ x = 0
    /\ mx = 0
    /\ arg = 0
    /\ sx = 0
    /\ fmap = << >>
    /\ logits = << >>
    /\ dirs = << >>
    /\ feats = << >>
    /\ mpd_ret = NoLists
    /\ ret = NoLists
    /\ err = ""
    /\ log = << >>

MpdArgs(periods, channels, channels_mul, max_channels, num_layers) ==
    [periods |-> periods, channels |-> channels, channels_mul |-> channels_mul,
     max_channels |-> max_channels, num_layers |-> num_layers]

MrdArgs(resolutions, channels, num_layers) ==
    [resolutions |-> resolutions, channels |-> channels, num_layers |-> num_layers]

\* the constructor defaults (lines 63-67, 124-126)
DefaultMpd ==
    MpdArgs(DefaultPeriods, DefaultChannels, DefaultChannelsMul, DefaultMaxChannels,
            DefaultNumLayersP)

DefaultMrd == MrdArgs(DefaultResolutions, DefaultChannelsR, DefaultNumLayersR)

\* get_padding is imported from .modules: any padding it may return
GetPaddingValues == 0..MaxGetPadding

\* ensembles of up to MaxSubs sub-discriminators with up to MaxLayers layers,
\* and the default ensembles, on short waveforms
Init ==
    \/ \E periods \in SeqsUpTo({2, 3}, MaxSubs), resolutions \in SeqsUpTo({2, 4}, MaxSubs),
          lp \in 0..MaxLayers, lr \in 0..MaxLayers, gp \in {0, MaxGetPadding}, b \in {1, 2} :
           Start([mpd |-> MpdArgs(periods, 2, 2, 3, lp),
                  mrd |-> MrdArgs(resolutions, 2, lr),
                  get_padding |-> gp],
                 [b |-> b, t |-> 9])
    \/ \E gp \in GetPaddingValues, b \in {1, 2}, t \in {3, 300} :
           Start([mpd |-> DefaultMpd, mrd |-> DefaultMrd, get_padding |-> gp],
                 [b |-> b, t |-> t])

Spec == Init /\ [][Next]_vars

\* one period sub-discriminator of every period up to MaxPeriod on every
\* waveform length up to MaxLen
InitPeriod ==
    \E p \in 1..MaxPeriod, q \in {1, 3}, t \in 1..MaxLen, b \in {1, 2}, gp \in GetPaddingValues :
        Start([mpd |-> MpdArgs(<<p, q>>, 2, 2, 3, 1),
               mrd |-> MrdArgs(<<1>>, 2, 1),
               get_padding |-> gp],
              [b |-> b, t |-> t])

SpecPeriod == InitPeriod /\ [][Next]_vars

\* every channel configuration up to MaxChannels
InitChannels ==
    \E c \in 1..MaxChannels, m \in 1..MaxMul, mc \in 1..MaxChannels, n \in 0..MaxLayers,
       rc \in 1..MaxChannels :
        Start([mpd |-> MpdArgs(<<2, 3>>, c, m, mc, n),
               mrd |-> MrdArgs(<<1>>, rc, 1),
               get_padding |-> MaxGetPadding],
              [b |-> 1, t |-> 4])

SpecChannels == InitChannels /\ [][Next]_vars

\* the default ensembles on waveforms around the length the largest FFT needs
InitDefault ==
    \E t \in {1024, 1025, 1536, 2048}, gp \in GetPaddingValues :
        Start([mpd |-> DefaultMpd, mrd |-> DefaultMrd, get_padding |-> gp],
              [b |-> 1, t |-> t])

SpecDefault == InitDefault /\ [][Next]_vars



-----------------------------------------------------------------------------
(* Properties of DiscriminatorP.forward's reshape (lines 43-48) *)

\* the running DiscriminatorP has just executed lines 40-48
Reshaped == pc = "P.conv" /\ k = 1

\* the period, the input length, the tensor given to view and the grid
RsPeriod == MPD[i].period
RsT == heap[arg].shape[3]
RsGrid == heap[sx]
RsPadded == heap[RsGrid.of[1]]
RsT2 == RsPadded.shape[3]

(* C1: for every input length t >= 1 and period p >= 1 the waveform is    *)
(* right-padded with n_pad zeros, n_pad = 0 if t mod p = 0 and            *)
(* p - (t mod p) otherwise, so 0 <= n_pad <= p - 1; the padded length t'  *)
(* is the smallest multiple of p that is >= t; the grid has t'/p rows and *)
(* p columns, rows * p = t', no sample dropped; the reshape never raises. *)
C1_PadToMultipleOfPeriod ==
    /\ err # "P.reshape"
    /\ Reshaped =>
         LET p == RsPeriod
             t == RsT
             t2 == RsT2
             n_pad == t2 - t
             b == heap[arg].shape[1]
         IN  /\ t >= 1 /\ p >= 1
             /\ n_pad = (IF t % p = 0 THEN 0 ELSE p - (t % p))
             /\ 0 <= n_pad /\ n_pad <= p - 1
             /\ t2 % p = 0 /\ t2 >= t
             /\ \A m \in t..(t2 - 1) : m % p # 0
             /\ (n_pad > 0) = (RsPadded.op = "pad")
             /\ \A r \in 0..(b - 1) :
                   /\ \A j \in 0..(t - 1) : At3(RsPadded, r, 0, j) = At3(heap[arg], r, 0, j)
                   /\ \A j \in t..(t2 - 1) : At3(RsPadded, r, 0, j) = 0
             /\ RsGrid.shape = <<b, 1, t2 \div p, p>>
             /\ RsGrid.shape[3] * p = t2
             /\ Len(RsGrid.data) = b * t2

\* a reshape that padded by at least two zeros onto more than one row
C1_Witness ==
    /\ Reshaped
    /\ RsT2 - RsT >= 2
    /\ RsT > RsPeriod
    /\ RsGrid.shape[3] >= 2

(* C2: the sample at index j of the padded waveform is at row j div p,    *)
(* column j mod p of the grid, for every j in 0..t'-1: original samples   *)
(* keep their values and order, and the padding zeros are only at the     *)
(* trailing positions of the last row.                                    *)
C2_RowMajorGrid ==
    Reshaped =>
        LET p == RsPeriod
            t == RsT
            t2 == RsT2
            b == heap[arg].shape[1]
            rows == t2 \div p
        IN  /\ RsGrid.shape = <<b, 1, rows, p>>
            /\ \A r \in 0..(b - 1) :
                  /\ \A j \in 0..(t2 - 1) :
                        At4(RsGrid, r, 0, j \div p, j % p) =
                            (IF j < t THEN At3(heap[arg], r, 0, j) ELSE 0)
                  /\ \A row \in 0..(rows - 1), col \in 0..(p - 1) :
                        /\ At4(RsGrid, r, 0, row, col) = 0 =>
                              (row = rows - 1 /\ row * p + col >= t)
                        /\ row * p + col < t =>
                              At4(RsGrid, r, 0, row, col) = At2(heap[x], r, row * p + col)

\* a grid of several rows and several columns whose last row holds samples and zeros
C2_Witness ==
    /\ Reshaped
    /\ RsPeriod >= 3
    /\ RsGrid.shape[3] >= 3
    /\ RsT2 - RsT >= 1
    /\ RsT % RsPeriod >= 2
    /\ heap[arg].shape[1] = 2


-----------------------------------------------------------------------------
(* Reading the computation graph *)

\* the sub-discriminator a history record is about
SubOf(e) == IF e.ens = "MPD" THEN MPD[e.sub] ELSE MRD[e.sub]

\* the position <<ensemble, sub-discriminator, layer>> of the convolution a
\* tensor was last computed by
RECURSIVE Origin(_, _)
Origin(h, a) ==
    IF h[a].op = "conv" THEN h[a].p
    ELSE IF Len(h[a].of) = 0 THEN <<0, 0, 0>>
    ELSE Origin(h, h[a].of[1])

\* the expression a tensor is the value of, down to the tensors in stops,
\* with detach erased (detach does not change values)
RECURSIVE Expr(_, _, _)
Expr(h, a, stops) ==
    IF a \in stops THEN <<"leaf", <<a>>, << >> >>
    ELSE IF h[a].op = "detach" THEN Expr(h, h[a].of[1], stops)
    ELSE <<h[a].op, h[a].p, [j \in 1..Len(h[a].of) |-> Expr(h, h[a].of[j], stops)]>>

\* the tensors of stops a tensor is attached to for gradient purposes: those
\* reached through operands without crossing a detach
RECURSIVE Attached(_, _, _)
Attached(h, a, stops) ==
    IF a \in stops THEN {a}
    ELSE IF h[a].op = "detach" THEN {}
    ELSE UNION {Attached(h, h[a].of[j], stops) : j \in 1..Len(h[a].of)}

\* sum over dim 1 of flatten(x, 2) * normalize(w, dim 1)
InnerProduct(xid, wid) ==
    <<"sum", <<1>>,
      << <<"mul", << >>,
           << <<"flatten", <<2>>, << <<"leaf", <<xid>>, << >> >> >> >>,
              <<"normalize", <<1>>, << <<"leaf", <<wid>>, << >> >> >> >> >> >> >> >>

Distinct(s) == \A m, n \in 1..Len(s) : m # n => s[m] # s[n]

Constructed == pc \notin {"MPD.__init__", "MRD.__init__"}

-----------------------------------------------------------------------------
(* Properties of SANLayer.forward *)

(* C3: logits and out_dir are the same channel-wise inner product of the  *)
(* flattened x with the channel-normalized weights; logits is attached to *)
(* x only (w detached), out_dir to the weights only (x detached); the     *)
(* stored parameter self.weights is never modified.                       *)
C3_SanOutputsDetachOneOperand ==
    /\ \A n \in 1..Len(log) :
          LET e == log[n]
              w == SubOf(e).post.weights
              stops == {e.head, w}
              s == heap[e.head].shape
          IN  /\ Expr(heap, e.logit, stops) = InnerProduct(e.head, w)
              /\ Expr(heap, e.dir, stops) = InnerProduct(e.head, w)
              /\ Attached(heap, e.logit, stops) = {e.head}
              /\ Attached(heap, e.dir, stops) = {w}
              /\ heap[e.logit].shape = <<s[1], s[3] * s[4]>>
              /\ heap[e.dir].shape = <<s[1], s[3] * s[4]>>
    /\ \A n \in 1..Len(MPD) : heap[MPD[n].post.weights] = ParamNode(MPD[n].post.channels)
    /\ \A n \in 1..Len(MRD) : heap[MRD[n].post.weights] = ParamNode(MRD[n].post.channels)

\* heads of both ensembles have been evaluated
C3_Witness ==
    /\ pc = "done"
    /\ \E n \in 1..Len(log) : log[n].ens = "MPD"
    /\ \E n \in 1..Len(log) : log[n].ens = "MRD" /\ heap[log[n].head].shape[3] >= 2

-----------------------------------------------------------------------------
(* Properties of Discriminator.forward's result *)

NumP == Len(cfg.mpd.periods)
NumR == Len(cfg.mrd.resolutions)
ConvsP == cfg.mpd.num_layers + 1
ConvsR == cfg.mrd.num_layers + 1

(* C4: forward returns (logits, dirs, feats) with len(logits) =           *)
(* len(dirs) = P + R; logits[n] and dirs[n] come from the same            *)
(* sub-discriminator; entries 1..P from the period sub-discriminators in  *)
(* the order of periods, entries P+1..P+R from the resolution ones in the *)
(* order of resolutions; len(feats) = P*(Lp+1) + R*(Lr+1), each           *)
(* sub-discriminator's feature maps contiguous, in layer order, in the    *)
(* same sub-discriminator order.                                          *)
C4_ResultLists ==
    pc = "done" =>
        /\ Len(ret.logits) = NumP + NumR
        /\ Len(ret.dirs) = NumP + NumR
        /\ Len(log) = NumP + NumR
        /\ \A n \in 1..(NumP + NumR) :
              LET ens == IF n <= NumP THEN 1 ELSE 2
                  sub == IF n <= NumP THEN n ELSE n - NumP
                  last == IF n <= NumP THEN ConvsP ELSE ConvsR
              IN  /\ Origin(heap, ret.logits[n]) = <<ens, sub, last>>
                  /\ Origin(heap, ret.dirs[n]) = <<ens, sub, last>>
                  /\ ret.logits[n] = log[n].logit
                  /\ ret.dirs[n] = log[n].dir
                  /\ log[n].sub = sub
                  /\ log[n].ens = (IF n <= NumP THEN "MPD" ELSE "MRD")
        /\ \A n \in 1..NumP : MPD[n].period = cfg.mpd.periods[n]
        /\ \A n \in 1..NumR : MRD[n].hop_size = cfg.mrd.resolutions[n]
        /\ Len(ret.feats) = NumP * ConvsP + NumR * ConvsR
        /\ \A n \in 1..NumP, l \in 1..ConvsP :
              Origin(heap, ret.feats[(n - 1) * ConvsP + l]) = <<1, n, l>>
        /\ \A n \in 1..NumR, l \in 1..ConvsR :
              Origin(heap, ret.feats[NumP * ConvsP + (n - 1) * ConvsR + l]) = <<2, n, l>>

\* a result of two period and two resolution sub-discriminators of different depths
C4_Witness ==
    /\ pc = "done"
    /\ NumP = 2 /\ NumR = 2
    /\ ConvsP = 3 /\ ConvsR = 2
    /\ cfg.mpd.periods[1] # cfg.mpd.periods[2]
    /\ cfg.mrd.resolutions[1] # cfg.mrd.resolutions[2]

(* C5: in both DiscriminatorP and DiscriminatorR every convolution is     *)
(* followed by a leaky-ReLU and the activated tensor is the one retained  *)
(* as the layer's feature map and passed to the next layer (for the last  *)
(* layer, to the SAN head); never the raw convolution output.             *)
C5_FeatureMapsAreActivated ==
    \A n \in 1..Len(log) :
        LET e == log[n] IN
        /\ Len(e.fmap) = Len(SubOf(e).convs)
        /\ \A l \in 1..Len(e.fmap) :
              /\ heap[e.fmap[l]].op = "leaky_relu"
              /\ heap[e.fmap[l]].p = <<1, 10>>
              /\ heap[heap[e.fmap[l]].of[1]].op = "conv"
              /\ heap[heap[e.fmap[l]].of[1]].p[3] = l
              /\ l > 1 => heap[heap[e.fmap[l]].of[1]].of = <<e.fmap[l - 1]>>
        /\ e.head = e.fmap[Len(e.fmap)]

-----------------------------------------------------------------------------
(* Properties of the constructors *)

(* C6: one DiscriminatorP per entry of periods with sub_discs[n].period = *)
(* periods[n]; one DiscriminatorR per entry of resolutions with hop_size  *)
(* = resolutions[n] and n_fft = 4 * resolutions[n], so n_fft = 4 *        *)
(* hop_size; pairwise distinct periods (resolutions) give pairwise        *)
(* distinct sub-discriminator periods ((n_fft, hop_size) pairs), as for   *)
(* the defaults.                                                          *)
C6_OneSubDiscriminatorPerEntry ==
    /\ Len(MPD) <= NumP
    /\ Len(MRD) <= NumR
    /\ \A n \in 1..Len(MPD) : MPD[n].period = cfg.mpd.periods[n]
    /\ \A n \in 1..Len(MRD) :
          /\ MRD[n].hop_size = cfg.mrd.resolutions[n]
          /\ MRD[n].n_fft = 4 * cfg.mrd.resolutions[n]
          /\ MRD[n].n_fft = 4 * MRD[n].hop_size
    /\ Constructed =>
          /\ Len(MPD) = NumP
          /\ Len(MRD) = NumR
          /\ Distinct(cfg.mpd.periods) => Distinct([n \in 1..Len(MPD) |-> MPD[n].period])
          /\ Distinct(cfg.mrd.resolutions) =>
                Distinct([n \in 1..Len(MRD) |-> <<MRD[n].n_fft, MRD[n].hop_size>>])
          /\ (cfg.mpd.periods = <<1, 2, 5, 7, 11, 17, 23, 31>>
              /\ cfg.mrd.resolutions = <<128, 256, 512>>) =>
                /\ Distinct([n \in 1..Len(MPD) |-> MPD[n].period])
                /\ [n \in 1..Len(MRD) |-> <<MRD[n].n_fft, MRD[n].hop_size>>]
                      = << <<512, 128>>, <<1024, 256>>, <<2048, 512>> >>

\* the default ensembles, built
C6_Witness ==
    /\ Constructed
    /\ cfg.mpd = DefaultMpd
    /\ cfg.mrd = DefaultMrd
    /\ Len(MPD) = 8
    /\ Len(MRD) = 3

(* C7: in both ensembles the sub-discriminator at index 0 has every       *)
(* convolution wrapped in spectral normalization and every later one in   *)
(* weight normalization; each convolution is wrapped by exactly one of    *)
(* the two, and the SAN head by neither.                                  *)
C7_NormByPosition ==
    /\ \A n \in 1..Len(MPD) :
          /\ \A l \in 1..Len(MPD[n].convs) :
                MPD[n].convs[l].norms = <<IF n = 1 THEN "spectral_norm" ELSE "weight_norm">>
          /\ Len(MPD[n].convs) = ConvsP
          /\ MPD[n].post.norms = << >>
    /\ \A n \in 1..Len(MRD) :
          /\ \A l \in 1..Len(MRD[n].convs) :
                MRD[n].convs[l].norms = <<IF n = 1 THEN "spectral_norm" ELSE "weight_norm">>
          /\ Len(MRD[n].convs) = ConvsR
          /\ MRD[n].post.norms = << >>

\* ensembles with a first and a later sub-discriminator each, of several layers
C7_Witness ==
    /\ Constructed
    /\ Len(MPD) >= 2 /\ Len(MRD) >= 2
    /\ ConvsP >= 2 /\ ConvsR >= 2


(* C8 as claimed: the output channel count of every convolution of a      *)
(* DiscriminatorP, the first one included, never exceeds max_channels;    *)
(* consecutive convolutions are chained with c_next = min(c *             *)
(* channels_mul, max_channels); the SAN head has the last convolution's   *)
(* output channel count.                                                  *)
C8_AllConvsCapped ==
    \A n \in 1..Len(MPD) :
        LET d == MPD[n] IN
        /\ \A l \in 1..Len(d.convs) : d.convs[l].cout <= cfg.mpd.max_channels
        /\ \A l \in 1..(Len(d.convs) - 1) :
              /\ d.convs[l + 1].cin = d.convs[l].cout
              /\ d.convs[l + 1].cout =
                    Min(d.convs[l].cout * cfg.mpd.channels_mul, cfg.mpd.max_channels)
        /\ d.post.channels = d.convs[Len(d.convs)].cout

(* C8 amended: the first convolution has 1 input channel and exactly      *)
(* `channels` output channels (within max_channels only when channels <=  *)
(* max_channels); every later convolution has at most max_channels output *)
(* channels; consecutive convolutions are chained with c_next = min(c *   *)
(* channels_mul, max_channels); the SAN head has the last convolution's   *)
(* output channel count.                                                  *)
C8_LaterConvsCapped ==
    \A n \in 1..Len(MPD) :
        LET d == MPD[n] IN
        /\ Len(d.convs) = cfg.mpd.num_layers + 1
        /\ d.convs[1].cin = 1
        /\ d.convs[1].cout = cfg.mpd.channels
        /\ (d.convs[1].cout <= cfg.mpd.max_channels) = (cfg.mpd.channels <= cfg.mpd.max_channels)
        /\ \A l \in 2..Len(d.convs) : d.convs[l].cout <= cfg.mpd.max_channels
        /\ \A l \in 1..(Len(d.convs) - 1) :
              /\ d.convs[l + 1].cin = d.convs[l].cout
              /\ d.convs[l + 1].cout =
                    Min(d.convs[l].cout * cfg.mpd.channels_mul, cfg.mpd.max_channels)
        /\ d.post.channels = d.convs[Len(d.convs)].cout
        /\ heap[d.post.weights].shape = <<1, d.convs[Len(d.convs)].cout, 1>>

\* a DiscriminatorP built with channels > max_channels and several layers, and run
C8_Witness ==
    /\ pc = "done"
    /\ cfg.mpd.channels > cfg.mpd.max_channels
    /\ cfg.mpd.num_layers >= 2
    /\ cfg.mpd.channels_mul >= 2
    /\ Len(MPD) = 2

-----------------------------------------------------------------------------
(* Properties of DiscriminatorR's shapes *)

(* C9: with the default configuration (resolutions 128, 256, 512,         *)
(* num_layers 6) the frequency axis starts at n_fft/2 + 1 = 2*resolution  *)
(* + 1 bins, is preserved by the first convolution and mapped from H to   *)
(* floor((H - 3) / 2) + 1 by each following one; it stays >= 1 after      *)
(* every layer (no layer raises on an empty or too small tensor), and the *)
(* time-frame axis keeps the spectrogram's length after every layer.      *)
C9_DefaultSpectrogramAxes ==
    (cfg.mrd = DefaultMrd) =>
        /\ err \notin {"R.conv", "R.post"}
        /\ \A a \in 1..Len(heap) :
              (heap[a].op = "conv" /\ heap[a].p[1] = 2) =>
                  LET n == heap[a]
                      in == heap[n.of[1]]
                      d == MRD[n.p[2]]
                      layer == n.p[3]
                  IN  /\ in.shape[3] >= 1
                      /\ n.shape[3] >= 1
                      /\ layer = 1 =>
                            /\ in.op = "unsqueeze"
                            /\ heap[in.of[1]].op = "abs"
                            /\ in.shape[3] = (d.n_fft \div 2) + 1
                            /\ in.shape[3] = 2 * cfg.mrd.resolutions[n.p[2]] + 1
                            /\ in.shape[4] = heap[in.of[1]].shape[3]
                            /\ n.shape[3] = in.shape[3]
                      /\ layer > 1 => n.shape[3] = ((in.shape[3] - 3) \div 2) + 1
                      /\ layer = 7 => n.shape[3] = <<3, 7, 15>>[n.p[2]]
                      /\ n.shape[4] = in.shape[4]
                      /\ n.shape[4] >= 1

\* the three default resolution sub-discriminators have run all seven convolutions
C9_Witness ==
    /\ pc = "done"
    /\ cfg.mrd = DefaultMrd
    /\ Len(log) = 11
    /\ Len(log[11].fmap) = 7
    /\ heap[log[11].head].shape[4] >= 3

-----------------------------------------------------------------------------
(* Frame properties of Discriminator.forward *)

(* C10: within one call every sub-discriminator sees the same original    *)
(* waveform: padding, reshape and unsqueeze create new tensors bound to   *)
(* locals and leave the caller's tensor as it was, so every period        *)
(* sub-discriminator receives the unpadded [B,1,t] input and every        *)
(* resolution sub-discriminator the original [B,t] waveform.              *)
C10_EverySubDiscriminatorSeesTheOriginal ==
    /\ x # 0 => heap[x] = InputNode(wave.b, wave.t)
    /\ mx # 0 =>
          /\ mx # x
          /\ heap[mx].shape = <<wave.b, 1, wave.t>>
          /\ heap[mx].data = InputNode(wave.b, wave.t).data
          /\ heap[mx].of = <<x>>
    /\ pc \in {"P.conv", "P.post"} => arg = mx
    /\ pc \in {"R.conv", "R.post"} => arg = x
    /\ \A n \in 1..Len(log) :
          /\ log[n].ens = "MPD" => log[n].arg = mx
          /\ log[n].ens = "MRD" => log[n].arg = x
    /\ \A a \in 1..Len(heap) :
          /\ heap[a].op = "pad" => heap[a].of = <<mx>>
          /\ heap[a].op = "view" => (heap[a].of = <<mx>> \/ heap[heap[a].of[1]].op = "pad")
          /\ heap[a].op = "stft" => heap[a].of[1] = x

\* a finished call in which a first period sub-discriminator padded its input
\* and later period and resolution sub-discriminators ran
C10_Witness ==
    /\ pc = "done"
    /\ NumP >= 2
    /\ NumR >= 2
    /\ \E a \in 1..Len(heap) : heap[a].op = "pad" /\ Origin(heap, log[1].head) = <<1, 1, ConvsP>>
    /\ wave.t % MPD[1].period # 0

=============================================================================
